---- MODULE Spec2Model ----
(***************************************************************************)
(* Model of src/frontend.py: the Streamlit script that loads a traffic     *)
(* table, fits a Holt-Winters model, estimates the traffic per customer,   *)
(* applies the linear customer adjustment, and renders chart, spreadsheet  *)
(* download and summary.  One run of the script body (lines 27-92) is one  *)
(* behaviour; pc is the position in the script.                            *)
(*                                                                         *)
(* Real numbers (float64 in the code) are modelled as exact fractions      *)
(* [n, d]; d = 0 encodes the IEEE results of a division by zero            *)
(* (n = 1: inf, n = -1: -inf, n = 0: NaN).  Rounding is not modelled.      *)
(* Timestamps are integers counted in ticks, TicksPerDay ticks to a day.   *)
(***************************************************************************)
EXTENDS Integers, Sequences, FiniteSets

VARIABLES pc, HIST_CUSTOMER_DROP, FORECAST_CUSTOMER_DROP, FORECAST_DAYS,
          SEASONAL_PERIODS, df, series, last_hist_date, forecast_df,
          traffic_per_customer, divisor, adjustment, output_df, writer,
          output, exported, shown, executed, error

vars == <<pc, HIST_CUSTOMER_DROP, FORECAST_CUSTOMER_DROP, FORECAST_DAYS,
          SEASONAL_PERIODS, df, series, last_hist_date, forecast_df,
          traffic_per_customer, divisor, adjustment, output_df, writer,
          output, exported, shown, executed, error>>

(***************************************************************************)
(* Bounds of the model.                                                    *)
(***************************************************************************)
\* longest uploaded table
MaxLen == 16

\* largest forecast horizon
MaxDays == 2

\* resolution of a timestamp within one day
TicksPerDay == 2

\* series.head(14) / series.tail(14)
Window == 14

(***************************************************************************)
(* Fractions.                                                              *)
(***************************************************************************)
Abs(x) == IF x < 0 THEN -x ELSE x

Min(a, b) == IF a <= b THEN a ELSE b

RECURSIVE GCD(_, _)
GCD(a, b) == IF b = 0 THEN a ELSE GCD(b, a % b)

Sign(x) == IF x > 0 THEN 1 ELSE IF x < 0 THEN -1 ELSE 0

\* the fraction n/d in lowest terms with a non-negative denominator
Rat(n, d) ==
    IF d = 0 THEN [n |-> Sign(n), d |-> 0]
    ELSE LET g == GCD(Abs(n), Abs(d))
             s == Sign(d)
         IN  [n |-> (s * n) \div g, d |-> (s * d) \div g]

Zero == Rat(0, 1)
NaN == Rat(0, 0)

IsNaN(x) == x.n = 0 /\ x.d = 0

RatSub(a, b) == Rat(a.n * b.d - b.n * a.d, a.d * b.d)
RatAdd(a, b) == Rat(a.n * b.d + b.n * a.d, a.d * b.d)
RatMul(a, b) == Rat(a.n * b.n, a.d * b.d)
RatDiv(a, b) == Rat(a.n * b.d, a.d * b.n)

\* a <= b and a < b as float comparison (false when either side is NaN)
RatLE(a, b) == ~IsNaN(a) /\ ~IsNaN(b) /\ a.n * b.d <= b.n * a.d
RatLT(a, b) == ~IsNaN(a) /\ ~IsNaN(b) /\ a.n * b.d < b.n * a.d

(***************************************************************************)
(* The uploaded table and the widget values.                               *)
(***************************************************************************)
\* traffic of the first uploaded row; the other rows hold 8
Levels == {1, 8, 15}

\* arrangements of the time_sec column of the uploaded rows
Layouts == {"sorted", "reversed", "duplicate", "intraday"}

\* values the fitted model may forecast
RawValues == {-1, 2}

\* values of the customer-change number inputs
HistChanges == {-1, 0, 1}
ForecastChanges == {-6, 0, 6}
SeasonChoices == {2, 8}

TimeOf(layout, n, i) ==
    CASE layout = "sorted"    -> i * TicksPerDay
      [] layout = "reversed"  -> (n + 1 - i) * TicksPerDay
      [] layout = "duplicate" -> IF i = 2 THEN TicksPerDay ELSE i * TicksPerDay
      [] layout = "intraday"  -> IF i = n THEN i * TicksPerDay + (TicksPerDay - 1)
                                          ELSE i * TicksPerDay

\* a table of n rows: the first row holds traffic a, the others 8
Table(layout, n, a) ==
    [i \in 1..n |-> [time_sec |-> TimeOf(layout, n, i),
                     AVG_Total_Traffic |-> IF i = 1 THEN a ELSE 8]]

Uploads == {Table(l, n, a) : l \in Layouts, n \in 1..MaxLen, a \in Levels}

Init ==
    /\ pc = "load"
    /\ HIST_CUSTOMER_DROP \in HistChanges
    /\ FORECAST_CUSTOMER_DROP \in ForecastChanges
    /\ FORECAST_DAYS \in 1..MaxDays
    /\ SEASONAL_PERIODS \in SeasonChoices
    /\ df \in Uploads
    /\ series = <<>>
    /\ last_hist_date = 0
    /\ forecast_df = <<>>
    /\ traffic_per_customer = Zero
    /\ divisor = <<>>
    /\ adjustment = <<>>
    /\ output_df = <<>>
    /\ writer = [state |-> "none", sheets |-> <<>>]
    /\ output = <<>>
    /\ exported = <<>>
    /\ shown = <<>>
    /\ executed = {}
    /\ error = "none"

(***************************************************************************)
(* Load data (lines 29-34).                                                *)
(***************************************************************************)
MinTime(rows, idx) ==
    CHOOSE t \in {rows[i].time_sec : i \in idx} :
        \A i \in idx : t <= rows[i].time_sec

MaxTime(rows) ==
    CHOOSE t \in {rows[i].time_sec : i \in DOMAIN rows} :
        \A i \in DOMAIN rows : rows[i].time_sec <= t

\* the orders sort_index (quicksort, not stable) can leave the rows idx in:
\* ascending by time_sec, rows of equal time_sec in any order
RECURSIVE SortOrders(_, _)
SortOrders(rows, idx) ==
    IF idx = {} THEN {<<>>}
    ELSE LET firsts == {i \in idx : rows[i].time_sec = MinTime(rows, idx)}
         IN  UNION {{<<rows[i]>> \o rest : rest \in SortOrders(rows, idx \ {i})}
                    : i \in firsts}

\* the rows left in upload order: the sort dropped
SortIndexMissing(rows) == {rows}

SortIndex(rows) == SortOrders(rows, DOMAIN rows)

\* Timestamp.normalize(): midnight of the timestamp's day
Normalize(t) == t - (t % TicksPerDay)

Load ==
    /\ pc = "load"
    /\ series' \in SortIndex(df)
    /\ last_hist_date' = Normalize(MaxTime(df))
    /\ executed' = executed \cup {"load"}
    /\ pc' = "model"
    /\ UNCHANGED <<HIST_CUSTOMER_DROP, FORECAST_CUSTOMER_DROP, FORECAST_DAYS,
                   SEASONAL_PERIODS, exported, df, forecast_df,
                   traffic_per_customer, divisor, adjustment, output_df,
                   writer, output, shown, error>>

(***************************************************************************)
(* Fit Holt-Winters (lines 37-38).  ExponentialSmoothing is statsmodels'   *)
(* code: with seasonal="add" it raises ValueError ("Cannot compute initial *)
(* seasonals using heuristic method with less than two full seasonal       *)
(* cycles in the data") when the series has fewer than 2 * seasonal_periods*)
(* observations.  The script has no try/except, so the run stops there.    *)
(***************************************************************************)
TooShort(s, seasonal_periods) == Len(s) < 2 * seasonal_periods

\* the error swallowed by a try/except around the fit: the run goes on
FitRaisesSwallowed ==
    /\ pc = "model"
    /\ TooShort(series, SEASONAL_PERIODS)
    /\ error' = "ValueError"
    /\ pc' = "forecast"
    /\ UNCHANGED <<HIST_CUSTOMER_DROP, FORECAST_CUSTOMER_DROP, FORECAST_DAYS,
                   SEASONAL_PERIODS, exported, df, series, last_hist_date,
                   forecast_df, traffic_per_customer, divisor, adjustment,
                   output_df, writer, output, shown, executed>>

FitRaises ==
    /\ pc = "model"
    /\ TooShort(series, SEASONAL_PERIODS)
    /\ error' = "ValueError"
    /\ pc' = "halted"
    /\ UNCHANGED <<HIST_CUSTOMER_DROP, FORECAST_CUSTOMER_DROP, FORECAST_DAYS,
                   SEASONAL_PERIODS, exported, df, series, last_hist_date, forecast_df,
                   traffic_per_customer, divisor, adjustment, output_df,
                   writer, output, shown, executed>>

Fit ==
    /\ pc = "model"
    /\ ~TooShort(series, SEASONAL_PERIODS)
    /\ executed' = executed \cup {"fit"}
    /\ pc' = "forecast"
    /\ UNCHANGED <<HIST_CUSTOMER_DROP, FORECAST_CUSTOMER_DROP, FORECAST_DAYS,
                   SEASONAL_PERIODS, exported, df, series, last_hist_date, forecast_df,
                   traffic_per_customer, divisor, adjustment, output_df,
                   writer, output, shown, error>>

(***************************************************************************)
(* Forecast (lines 40-43).  fit.forecast(FORECAST_DAYS) returns            *)
(* FORECAST_DAYS values chosen by the fitted model: any sequence of        *)
(* RawValues.                                                              *)
(***************************************************************************)
\* pd.date_range(start, periods=periods, freq="D")
DateRange(start, periods) ==
    [i \in 1..periods |-> start + (i - 1) * TicksPerDay]

\* the range started on last_hist_date itself
ForecastDatesFromLast(last, periods) == DateRange(last, periods)

\* forecast_dates: the range starts one day after last_hist_date
ForecastDates(last, periods) == DateRange(last + TicksPerDay, periods)

\* pd.DataFrame({"time_sec": dates, "Forecast_raw": values})
ForecastFrame(dates, values) ==
    [i \in 1..Len(dates) |-> [time_sec |-> dates[i],
                              Forecast_raw |-> Rat(values[i], 1)]]

Forecast ==
    /\ pc = "forecast"
    /\ \E forecast \in [1..FORECAST_DAYS -> RawValues] :
          forecast_df' = ForecastFrame(ForecastDates(last_hist_date, FORECAST_DAYS),
                                       forecast)
    /\ executed' = executed \cup {"forecast"}
    /\ pc' = "estimate"
    /\ UNCHANGED <<HIST_CUSTOMER_DROP, FORECAST_CUSTOMER_DROP, FORECAST_DAYS,
                   SEASONAL_PERIODS, exported, df, series, last_hist_date,
                   traffic_per_customer, divisor, adjustment, output_df,
                   writer, output, shown, error>>

(***************************************************************************)
(* Estimate traffic per customer (lines 46-53).                            *)
(***************************************************************************)
\* positions of Series.head(k) and Series.tail(k) in a series of length len
HeadIndex(len, k) == 1..Min(k, len)
TailIndex(len, k) == (len - Min(k, len) + 1)..len

SeriesHead(s, k) == [i \in HeadIndex(Len(s), k) |-> s[i]]

\* tail(13): a window one observation short
SeriesTailShort(s, k) ==
    [i \in 1..Min(k - 1, Len(s)) |-> s[Len(s) - Min(k - 1, Len(s)) + i]]

SeriesTail(s, k) ==
    [i \in 1..Min(k, Len(s)) |-> s[Len(s) - Min(k, Len(s)) + i]]

RECURSIVE SumTraffic(_)
SumTraffic(s) ==
    IF s = <<>> THEN 0 ELSE s[1].AVG_Total_Traffic + SumTraffic(Tail(s))

\* Series.mean(): NaN for an empty series
Mean(s) == Rat(SumTraffic(s), Len(s))

\* the division of line 52 without its guard on the denominator
TrafficPerCustomerUnguarded(s, hist) ==
    LET start_mean == Mean(SeriesHead(s, Window))
        end_mean == Mean(SeriesTail(s, Window))
        change == RatSub(start_mean, end_mean)
    IN  IF ~IsNaN(start_mean) /\ ~IsNaN(end_mean)
        THEN [value |-> RatDiv(change, Rat(hist, 1)), divisor |-> <<hist>>]
        ELSE [value |-> Zero, divisor |-> <<>>]

\* lines 49-53: the coefficient, and the denominators line 52 divided by
TrafficPerCustomer(s, hist) ==
    LET start_mean == Mean(SeriesHead(s, Window))
        end_mean == Mean(SeriesTail(s, Window))
        change == RatSub(start_mean, end_mean)
    IN  IF ~IsNaN(start_mean) /\ ~IsNaN(end_mean)
        THEN IF hist # 0
             THEN [value |-> RatDiv(change, Rat(hist, 1)), divisor |-> <<hist>>]
             ELSE [value |-> Zero, divisor |-> <<>>]
        ELSE [value |-> Zero, divisor |-> <<>>]

Estimate ==
    /\ pc = "estimate"
    /\ LET est == TrafficPerCustomer(series, HIST_CUSTOMER_DROP)
       IN  /\ traffic_per_customer' = est.value
           /\ divisor' = est.divisor
    /\ executed' = executed \cup {"estimate"}
    /\ pc' = "adjust"
    /\ UNCHANGED <<HIST_CUSTOMER_DROP, FORECAST_CUSTOMER_DROP, FORECAST_DAYS,
                   SEASONAL_PERIODS, exported, df, series, last_hist_date, forecast_df,
                   adjustment, output_df, writer, output, shown, error>>

(***************************************************************************)
(* Apply customer adjustment linearly over the horizon (lines 56-62).      *)
(***************************************************************************)
\* line 57 with "or" for "and"
AdjustsEither(change, coefficient) == change # 0 \/ coefficient # Zero

\* line 57: the adjustment is applied
Adjusts(change, coefficient) == change # 0 /\ coefficient # Zero

\* np.arange(0, days): the ramp counted from zero
AdjustmentZeroBased(change, days, coefficient) ==
    LET daily_change == Rat(change, days)
        cum_change == [i \in 1..days |-> RatMul(Rat(i - 1, 1), daily_change)]
    IN  [i \in 1..days |-> RatMul(cum_change[i], coefficient)]

\* lines 58-60: adjustment[i] = i * (change / days) * coefficient
Adjustment(change, days, coefficient) ==
    LET daily_change == Rat(change, days)
        cum_change == [i \in 1..days |-> RatMul(Rat(i, 1), daily_change)]
    IN  [i \in 1..days |-> RatMul(cum_change[i], coefficient)]

\* Series.clip(lower=0): NaN stays NaN
ClipLower(x) == IF RatLT(x, Zero) THEN Zero ELSE x

\* the adjustment added where line 61 subtracts it
AdjustedColumnAdds(raw, change, days, coefficient) ==
    IF Adjusts(change, coefficient)
    THEN [i \in 1..Len(raw) |->
             ClipLower(RatAdd(raw[i], Adjustment(change, days, coefficient)[i]))]
    ELSE raw

\* lines 56-62: the Adjusted column
AdjustedColumn(raw, change, days, coefficient) ==
    IF Adjusts(change, coefficient)
    THEN [i \in 1..Len(raw) |->
             ClipLower(RatSub(raw[i], Adjustment(change, days, coefficient)[i]))]
    ELSE raw

Adjust ==
    /\ pc = "adjust"
    /\ LET raw == [i \in 1..Len(forecast_df) |-> forecast_df[i].Forecast_raw]
           adj == AdjustedColumn(raw, FORECAST_CUSTOMER_DROP, FORECAST_DAYS,
                                 traffic_per_customer)
       IN  forecast_df' =
               [i \in 1..Len(forecast_df) |->
                   [time_sec |-> forecast_df[i].time_sec,
                    Forecast_raw |-> forecast_df[i].Forecast_raw,
                    Adjusted |-> adj[i]]]
    /\ adjustment' =
           IF Adjusts(FORECAST_CUSTOMER_DROP, traffic_per_customer)
           THEN Adjustment(FORECAST_CUSTOMER_DROP, FORECAST_DAYS,
                           traffic_per_customer)
           ELSE <<>>
    /\ executed' = executed \cup {"adjust"}
    /\ pc' = "merge"
    /\ UNCHANGED <<HIST_CUSTOMER_DROP, FORECAST_CUSTOMER_DROP, FORECAST_DAYS,
                   SEASONAL_PERIODS, exported, df, series, last_hist_date,
                   traffic_per_customer, divisor, output_df, writer, output,
                   shown, error>>

(***************************************************************************)
(* Merge with history (lines 65-66).  pd.concat fills the columns a frame  *)
(* lacks with NaN.                                                         *)
(***************************************************************************)
HistFrame(s) ==
    [i \in 1..Len(s) |-> [time_sec |-> s[i].time_sec,
                          Historical |-> Rat(s[i].AVG_Total_Traffic, 1),
                          Forecast_raw |-> NaN,
                          Adjusted |-> NaN]]

Concat(s, f) ==
    HistFrame(s) \o [i \in 1..Len(f) |-> [time_sec |-> f[i].time_sec,
                                          Historical |-> NaN,
                                          Forecast_raw |-> f[i].Forecast_raw,
                                          Adjusted |-> f[i].Adjusted]]

Merge ==
    /\ pc = "merge"
    /\ output_df' = Concat(series, forecast_df)
    /\ executed' = executed \cup {"merge"}
    /\ pc' = "chart"
    /\ UNCHANGED <<HIST_CUSTOMER_DROP, FORECAST_CUSTOMER_DROP, FORECAST_DAYS,
                   SEASONAL_PERIODS, exported, df, series, last_hist_date, forecast_df,
                   traffic_per_customer, divisor, adjustment, writer, output,
                   shown, error>>

(***************************************************************************)
(* Show plots (lines 69-80).                                               *)
(***************************************************************************)
Chart ==
    /\ pc = "chart"
    /\ shown' = Append(shown, "chart")
    /\ executed' = executed \cup {"chart"}
    /\ pc' = "excel"
    /\ UNCHANGED <<HIST_CUSTOMER_DROP, FORECAST_CUSTOMER_DROP, FORECAST_DAYS,
                   SEASONAL_PERIODS, exported, df, series, last_hist_date, forecast_df,
                   traffic_per_customer, divisor, adjustment, output_df,
                   writer, output, error>>

(***************************************************************************)
(* Download Excel (lines 83-88).  The workbook lives in the writer until   *)
(* the with block closes it; closing saves it into the BytesIO buffer.     *)
(***************************************************************************)
\* lines 84-85: output = BytesIO(); the with block opens the writer on it
OpenWriter ==
    /\ pc = "excel"
    /\ output' = <<>>
    /\ writer' = [state |-> "open", sheets |-> <<>>]
    /\ executed' = executed \cup {"open"}
    /\ pc' = "to_excel"
    /\ UNCHANGED <<HIST_CUSTOMER_DROP, FORECAST_CUSTOMER_DROP, FORECAST_DAYS,
                   SEASONAL_PERIODS, exported, df, series, last_hist_date, forecast_df,
                   traffic_per_customer, divisor, adjustment, output_df,
                   shown, error>>

\* line 86: output_df.to_excel(writer, index=False, sheet_name="Forecast")
ToExcel ==
    /\ pc = "to_excel"
    /\ writer' = [writer EXCEPT !.sheets =
                     Append(@, [sheet_name |-> "Forecast", rows |-> output_df])]
    /\ executed' = executed \cup {"to_excel"}
    /\ pc' = "close"
    /\ UNCHANGED <<HIST_CUSTOMER_DROP, FORECAST_CUSTOMER_DROP, FORECAST_DAYS,
                   SEASONAL_PERIODS, exported, df, series, last_hist_date, forecast_df,
                   traffic_per_customer, divisor, adjustment, output_df,
                   output, shown, error>>

\* the writer closed without saving the workbook
SavedNothing(w) == <<>>

\* what leaving the with block leaves in the buffer
Saved(w) == w.sheets

\* line 85, leaving the with block: the writer saves the workbook and closes
CloseWriter ==
    /\ pc = "close"
    /\ output' = Saved(writer)
    /\ writer' = [writer EXCEPT !.state = "closed"]
    /\ executed' = executed \cup {"close"}
    /\ pc' = "download"
    /\ UNCHANGED <<HIST_CUSTOMER_DROP, FORECAST_CUSTOMER_DROP, FORECAST_DAYS,
                   SEASONAL_PERIODS, exported, df, series, last_hist_date, forecast_df,
                   traffic_per_customer, divisor, adjustment, output_df,
                   shown, error>>

\* lines 87-88: st.download_button(..., data=output.getvalue(), ...)
DownloadData(buffer) == buffer

Download ==
    /\ pc = "download"
    /\ shown' = Append(shown, "download")
    /\ exported' = DownloadData(output)
    /\ executed' = executed \cup {"download"}
    /\ pc' = "info"
    /\ UNCHANGED <<HIST_CUSTOMER_DROP, FORECAST_CUSTOMER_DROP, FORECAST_DAYS,
                   SEASONAL_PERIODS, df, series, last_hist_date, forecast_df,
                   traffic_per_customer, divisor, adjustment, output_df,
                   writer, output, error>>

(***************************************************************************)
(* Info (lines 91-92).                                                     *)
(***************************************************************************)
Info ==
    /\ pc = "info"
    /\ shown' = Append(shown, "summary")
    /\ executed' = executed \cup {"info"}
    /\ pc' = "done"
    /\ UNCHANGED <<HIST_CUSTOMER_DROP, FORECAST_CUSTOMER_DROP, FORECAST_DAYS,
                   SEASONAL_PERIODS, df, series, last_hist_date, forecast_df,
                   traffic_per_customer, divisor, adjustment, output_df,
                   writer, output, exported, error>>

Next ==
    \/ Load
    \/ FitRaises
    \/ Fit
    \/ Forecast
    \/ Estimate
    \/ Adjust
    \/ Merge
    \/ Chart
    \/ OpenWriter
    \/ ToExcel
    \/ CloseWriter
    \/ Download
    \/ Info

Spec == Init /\ [][Next]_vars

(***************************************************************************)
(* Properties.                                                             *)
(***************************************************************************)
Horizon == 1..FORECAST_DAYS
RawAt(i) == forecast_df[i].Forecast_raw
AdjustedAt(i) == forecast_df[i].Adjusted
Adjusted == "adjust" \in executed
Estimated == "estimate" \in executed

\* a fraction against zero, by the sign of its numerator
Negative(x) == x.d > 0 /\ x.n < 0
Positive(x) == x.d > 0 /\ x.n > 0

\* a <= b and a < b for finite fractions, by cross-multiplication
AtMost(a, b) == a.d > 0 /\ b.d > 0 /\ a.n * b.d <= b.n * a.d
Below(a, b) == a.d > 0 /\ b.d > 0 /\ a.n * b.d < b.n * a.d

\* C1: once the adjustment step has run, every adjusted value of the
\* horizon is >= 0, on the adjusting path and on the pass-through path.
C1_AdjustedNonNegative ==
    Adjusted => \A i \in Horizon : ~Negative(AdjustedAt(i))

\* C2 as stated: with a positive coefficient and a positive forecast
\* customer change the adjustment is non-decreasing in i and every adjusted
\* value is at most its raw value, raw values below zero included.
C2_AdjustedAtMostRaw ==
    (Adjusted /\ Positive(traffic_per_customer) /\ FORECAST_CUSTOMER_DROP > 0)
        => /\ \A i \in Horizon : \A j \in Horizon :
                  i <= j => AtMost(adjustment[i], adjustment[j])
           /\ \A i \in Horizon : AtMost(AdjustedAt(i), RawAt(i))

\* C2 amended: with a positive coefficient and a positive forecast customer
\* change the adjustment is non-decreasing in i; every adjusted value is at
\* most its raw value where the raw value is >= 0, and is 0 (above the raw
\* value) where the raw value is below zero.
C2_AdjustedAtMostRawOrZero ==
    (Adjusted /\ Positive(traffic_per_customer) /\ FORECAST_CUSTOMER_DROP > 0)
        => /\ Len(adjustment) = FORECAST_DAYS
           /\ \A i \in Horizon : \A j \in Horizon :
                  i <= j => AtMost(adjustment[i], adjustment[j])
           /\ \A i \in Horizon :
                  IF Negative(RawAt(i)) THEN AdjustedAt(i) = Zero
                  ELSE AtMost(AdjustedAt(i), RawAt(i))

C2_Witness ==
    /\ Adjusted /\ Positive(traffic_per_customer) /\ FORECAST_CUSTOMER_DROP > 0
    /\ FORECAST_DAYS >= 2
    /\ \E i \in Horizon : Negative(RawAt(i))
    /\ \E i \in Horizon : Below(AdjustedAt(i), RawAt(i)) /\ Positive(AdjustedAt(i))

\* C3: when the forecast customer change is 0 or the coefficient is 0, no
\* adjustment is computed and every adjusted value equals its raw value
\* exactly, negative raw values included (nothing is clipped).
C3_PassThrough ==
    (Adjusted /\ (FORECAST_CUSTOMER_DROP = 0 \/ traffic_per_customer = Zero))
        => /\ adjustment = <<>>
           /\ \A i \in Horizon : AdjustedAt(i) = RawAt(i)

C3_Witness ==
    /\ Adjusted /\ FORECAST_CUSTOMER_DROP = 0 /\ traffic_per_customer # Zero
    /\ \E i \in Horizon : Negative(RawAt(i)) /\ AdjustedAt(i) = RawAt(i)

\* C4: with a historical customer change of exactly 0 the estimator yields
\* the coefficient 0 whatever the series, divides by nothing and raises
\* nothing.
C4_ZeroHistoricalChange ==
    (Estimated /\ HIST_CUSTOMER_DROP = 0)
        => traffic_per_customer = Zero /\ divisor = <<>> /\ error = "none"

C4_Witness ==
    /\ Estimated /\ HIST_CUSTOMER_DROP = 0
    /\ Len(series) > Window
    /\ series[1].AVG_Total_Traffic # series[Len(series)].AVG_Total_Traffic

\* midnight of the day of the latest uploaded timestamp
LastDay == (MaxTime(df) \div TicksPerDay) * TicksPerDay

\* C5: the forecast has exactly FORECAST_DAYS rows, each with a raw value
\* and (after the adjustment step) an adjusted value; row i is dated i days
\* after the day of the latest historical timestamp, so each date is one
\* day after the previous one.
C5_HorizonDates ==
    ("forecast" \in executed)
        => /\ Len(forecast_df) = FORECAST_DAYS
           /\ \A i \in Horizon :
                  forecast_df[i].time_sec = LastDay + i * TicksPerDay
           /\ \A i \in Horizon :
                  i > 1 => forecast_df[i].time_sec
                               = forecast_df[i - 1].time_sec + TicksPerDay
           /\ Adjusted => \A i \in Horizon :
                              "Adjusted" \in DOMAIN forecast_df[i]

C5_Witness ==
    /\ Adjusted
    /\ FORECAST_DAYS >= 2
    /\ MaxTime(df) % TicksPerDay # 0
    /\ forecast_df[1].time_sec > MaxTime(df)

\* steps that produce a forecast or an output artifact
ForecastSteps ==
    {"forecast", "estimate", "adjust", "merge", "chart", "open", "to_excel",
     "close", "download", "info"}

\* C6: a series of fewer than 2 * seasonal_periods observations ends the run
\* in the error raised by the model fit, before any forecast step, and
\* neither chart nor download nor summary is produced.
C6_InsufficientData ==
    (Len(df) < 2 * SEASONAL_PERIODS)
        => /\ pc \in {"load", "model", "halted"}
           /\ pc = "halted" <=> error = "ValueError"
           /\ executed \cap (ForecastSteps \cup {"fit"}) = {}
           /\ forecast_df = <<>> /\ shown = <<>> /\ exported = <<>>

C6_Witness ==
    /\ pc = "halted"
    /\ Len(series) >= SEASONAL_PERIODS
    /\ Len(series) < 2 * SEASONAL_PERIODS

RECURSIVE TrafficBetween(_, _, _)
\* the sum of the traffic of the observations lo..hi of s
TrafficBetween(s, lo, hi) ==
    IF lo > hi THEN 0
    ELSE s[lo].AVG_Total_Traffic + TrafficBetween(s, lo + 1, hi)

\* C7: with a non-zero historical change the coefficient is (mean of the
\* first w observations - mean of the last w observations) / the historical
\* change, w = min(14, n); it is 0 for n < 14, and for 14 <= n < 28 the two
\* windows share observations.
C7_Coefficient ==
    (Estimated /\ HIST_CUSTOMER_DROP # 0)
        => LET n == Len(series)
               w == IF n < 14 THEN n ELSE 14
           IN  /\ traffic_per_customer.d > 0
               /\ traffic_per_customer.n * w * HIST_CUSTOMER_DROP
                      = traffic_per_customer.d
                          * (TrafficBetween(series, 1, w)
                               - TrafficBetween(series, n - w + 1, n))
               /\ divisor = <<HIST_CUSTOMER_DROP>>
               /\ n < 14 => traffic_per_customer = Zero
               /\ (14 <= n /\ n < 28)
                      => HeadIndex(n, Window) \cap TailIndex(n, Window) # {}

C7_Witness ==
    /\ Estimated /\ HIST_CUSTOMER_DROP # 0
    /\ Len(series) > 14
    /\ traffic_per_customer # Zero

HandedOver == pc \in {"model", "merge"}

Copies(s, r) == Cardinality({i \in DOMAIN s : s[i] = r})

C10_DownloadAfterWrite ==
    ("download" \in executed)
        => /\ writer.state = "closed"
           /\ {"forecast", "estimate", "adjust", "merge", "to_excel", "close"}
                  \subseteq executed
           /\ exported = <<[sheet_name |-> "Forecast", rows |-> output_df]>>
           /\ Len(output_df) = Len(series) + FORECAST_DAYS
           /\ \A i \in Horizon :
                  output_df[Len(series) + i].Adjusted = AdjustedAt(i)

C10_Witness ==
    /\ pc = "done"
    /\ shown = <<"chart", "download", "summary">>
    /\ exported # <<>>
====
